---- MODULE Spec2Model ----
(***************************************************************************)
(* A model of src/io/fasta.rs: the streaming FASTA Reader and its Records  *)
(* iterator, the Writer, the .fai Index and the IndexedReader.             *)
(*                                                                         *)
(* A byte is a one-character string; a byte string (String, Vec<u8>, a     *)
(* stream's contents) is a sequence of bytes.  Streams are in-memory       *)
(* (io::Cursor / &[u8], as in the tests of fasta.rs): a read returns every *)
(* requested byte that exists before the end of the stream, the transport  *)
(* does not fail, and the bytes are ASCII.                                 *)
(***************************************************************************)
EXTENDS Naturals, Integers, Sequences, FiniteSets, TLC

VARIABLES
    \* ---- Reader / Records (fasta.rs 31-82, 317-333)
    input,      \* the bytes of the stream the Reader was built on
    rpos,       \* number of bytes the BufReader has handed out
    line,       \* Reader.line
    record,     \* the Record the last read() was given, as read() left it
    item,       \* outcome of the last call
    yielded,    \* the records the iterator returned as Some(Ok(_)), in order
    calls,      \* number of read()/next() calls made
    iterating,  \* TRUE: the Reader was turned into Records by records()
    \* ---- Writer (fasta.rs 214-264)
    wbuf,       \* bytes held by the BufWriter
    sink,       \* bytes that reached the underlying writer
    written,    \* the (id, desc, seq) triples given to write(), in order
    phase,      \* "write" | "read" | "-"
    \* ---- IndexedReader (fasta.rs 122-195)
    fasta,      \* the bytes of the seekable stream
    index,      \* Index.inner: name -> IndexRecord
    logical,    \* the bases of the indexed sequence, unwrapped
    cursor,     \* position of the stream
    sought,     \* position the last read() sought to
    out,        \* the caller's seq buffer
    res,        \* outcome of the last call
    call,       \* the last call: [op, name, start, stop, prior: cursor before it]
    ncalls,     \* number of calls made
    \* ---- Index::new (fasta.rs 91-99)
    fai,        \* the rows of the side-file, each a sequence of fields
    rowi,       \* number of rows decoded
    inner,      \* the BTreeMap under construction
    built       \* "building" | "Ok" | "Err"

readerVars == <<input, rpos, line, record, item, yielded, calls, iterating>>
writerVars == <<wbuf, sink, written, phase>>
indexedVars == <<fasta, index, logical, cursor, sought, out, res, call, ncalls>>
indexVars == <<fai, rowi, inner, built>>
vars == <<readerVars, writerVars, indexedVars, indexVars>>

(***************************************************************************)
(* Bounds                                                                  *)
(***************************************************************************)
MaxStream == 6
MaxCalls == 4
MaxRecs == 2
MaxLen == 3
MaxLineBases == 2
MaxRows == 3
MaxReads == 2

NL == "\n"
GT == ">"
SP == " "
Whitespace == {SP, NL}

Min(a, b) == IF a < b THEN a ELSE b

(***************************************************************************)
(* str and BufRead primitives used by Reader::read                         *)
(***************************************************************************)
\* BufRead::read_line on an empty buffer: the bytes from pos up to and
\* including the next "\n", or up to the end of the stream.
ReadLine(s, pos) ==
    LET nls == {i \in (pos + 1)..Len(s) : s[i] = NL}
        end == IF nls = {} THEN Len(s)
               ELSE CHOOSE i \in nls : \A j \in nls : i <= j
    IN SubSeq(s, pos + 1, end)

\* str::trim_right
RECURSIVE TrimRight(_)
TrimRight(s) ==
    IF s = <<>> THEN <<>>
    ELSE IF s[Len(s)] \in Whitespace THEN TrimRight(SubSeq(s, 1, Len(s) - 1))
    ELSE s

\* str::starts_with(">")
StartsWithGT(s) == Len(s) > 0 /\ s[1] = GT

\* str::split_whitespace, collected
RECURSIVE SplitWS(_, _, _)
SplitWS(s, cur, acc) ==
    IF s = <<>> THEN (IF cur = <<>> THEN acc ELSE Append(acc, cur))
    ELSE IF Head(s) \in Whitespace
         THEN SplitWS(Tail(s), <<>>, IF cur = <<>> THEN acc ELSE Append(acc, cur))
         ELSE SplitWS(Tail(s), Append(cur, Head(s)), acc)

SplitWhitespace(s) == SplitWS(s, <<>>, <<>>)

(***************************************************************************)
(* Record                                                                  *)
(***************************************************************************)
RecordNew == [header |-> <<>>, seq |-> <<>>]

RecordIsEmpty(r) == r.header = <<>> /\ r.seq = <<>>

\* Option<&str> as a sequence of at most one token; header[1..] needs a
\* non-empty header.
RecordId(r) ==
    LET toks == SplitWhitespace(Tail(r.header))
    IN IF toks = <<>> THEN <<>> ELSE <<toks[1]>>

RecordDesc(r) ==
    LET toks == SplitWhitespace(Tail(r.header))
    IN IF toks = <<>> THEN <<>> ELSE Tail(toks)

(***************************************************************************)
(* Reader::read                                                            *)
(***************************************************************************)
\* A read() that stores whatever line is buffered as the header.
HeaderCheckLax(ln) == TRUE
\* line 59: the buffered line must start with ">"
HeaderCheck(ln) == StartsWithGT(ln)

\* The loop of lines 66-73: the line just read is appended to seq before it
\* is tested for being a header.
RECURSIVE ReadSeqLines(_, _, _)
ReadSeqLines(s, pos, seq) ==
    LET ln == ReadLine(s, pos)
        seq2 == seq \o TrimRight(ln)
        pos2 == pos + Len(ln)
    IN IF ln = <<>> \/ StartsWithGT(ln)
       THEN [line |-> ln, pos |-> pos2, seq |-> seq2]
       ELSE ReadSeqLines(s, pos2, seq2)

ReaderRead(s, pos, ln) ==
    LET first == IF ln = <<>> THEN ReadLine(s, pos) ELSE ln
        pos1 == IF ln = <<>> THEN pos + Len(first) ELSE pos
    IN IF first = <<>>
       THEN [res |-> "Ok", line |-> first, pos |-> pos1, record |-> RecordNew]
       ELSE IF ~HeaderCheck(first)
       THEN [res |-> "Err", line |-> first, pos |-> pos1, record |-> RecordNew]
       ELSE LET body == ReadSeqLines(s, pos1, <<>>)
            IN [res |-> "Ok", line |-> body.line, pos |-> body.pos,
                record |-> [header |-> first, seq |-> body.seq]]

\* Records::next on the outcome of Reader::read
RecordsItem(r) ==
    IF r.res = "Err" THEN "Err"
    ELSE IF RecordIsEmpty(r.record) THEN "None"
    ELSE "Ok"

Alphabet == {GT, NL, SP, "a"}
Streams == UNION {[1..n -> Alphabet] : n \in 0..MaxStream}

writerIdle == /\ wbuf = <<>> /\ sink = <<>> /\ written = <<>> /\ phase = "-"
indexedIdle ==
    /\ fasta = <<>> /\ index = <<>> /\ logical = <<>> /\ cursor = 0
    /\ sought = 0 /\ out = <<>> /\ res = "-" /\ call = <<>> /\ ncalls = 0
indexIdle == /\ fai = <<>> /\ rowi = 0 /\ inner = <<>> /\ built = "-"

InitReader ==
    /\ input \in Streams
    /\ rpos = 0
    /\ line = <<>>
    /\ record = RecordNew
    /\ item = "-"
    /\ yielded = <<>>
    /\ calls = 0
    /\ iterating \in BOOLEAN
    /\ writerIdle /\ indexedIdle /\ indexIdle

\* Reader::read called by the owner of the Reader on its own record
Read ==
    /\ ~iterating
    /\ phase = "-"
    /\ calls < MaxCalls
    /\ LET r == ReaderRead(input, rpos, line)
       IN /\ line' = r.line
          /\ rpos' = r.pos
          /\ record' = r.record
          /\ item' = r.res
    /\ calls' = calls + 1
    /\ UNCHANGED <<input, yielded, iterating, writerVars, indexedVars, indexVars>>

\* Records::next
RecordsNext ==
    /\ iterating
    /\ calls < MaxCalls
    /\ LET r == ReaderRead(input, rpos, line)
       IN /\ line' = r.line
          /\ rpos' = r.pos
          /\ record' = r.record
          /\ item' = RecordsItem(r)
          /\ yielded' = IF RecordsItem(r) = "Ok" THEN Append(yielded, r.record)
                        ELSE yielded
    /\ calls' = calls + 1
    /\ UNCHANGED <<input, iterating, writerVars, indexedVars, indexVars>>

NextReader == Read \/ RecordsNext

SpecReader == InitReader /\ [][NextReader]_vars

(***************************************************************************)
(* Writer                                                                  *)
(***************************************************************************)
RECURSIVE WriteDescs(_, _)
WriteDescs(buf, desc) ==
    IF desc = <<>> THEN buf
    ELSE WriteDescs(buf \o <<SP>> \o Head(desc), Tail(desc))

\* Writer::write: the bytes in the BufWriter after the call
WriterWrite(buf, id, desc, seq) ==
    WriteDescs(buf \o <<GT>> \o id, desc) \o <<NL>> \o seq \o <<NL>>

Ids == {<<"a">>, <<"b", "a">>}
Descs == {<<>>, <<<<"d">>>>, <<<<"d">>, <<"e", "d">>>>}
Seqs == {<<>>, <<"A">>, <<"A", "C">>, <<"A", SP>>}

readerIdle ==
    /\ input = <<>> /\ rpos = 0 /\ line = <<>> /\ record = RecordNew
    /\ item = "-" /\ yielded = <<>> /\ calls = 0 /\ iterating = FALSE

InitRoundTrip ==
    /\ readerIdle
    /\ wbuf = <<>>
    /\ sink = <<>>
    /\ written = <<>>
    /\ phase = "write"
    /\ indexedIdle /\ indexIdle

Write ==
    /\ phase = "write"
    /\ Len(written) < MaxRecs
    /\ \E id \in Ids, desc \in Descs, seq \in Seqs :
          /\ wbuf' = WriterWrite(wbuf, id, desc, seq)
          /\ written' = Append(written, [id |-> <<id>>, desc |-> desc, seq |-> seq])
    /\ UNCHANGED <<sink, phase, readerVars, indexedVars, indexVars>>

\* Writer::flush
Flush ==
    /\ phase = "write"
    /\ sink' = sink \o wbuf
    /\ wbuf' = <<>>
    /\ UNCHANGED <<written, phase, readerVars, indexedVars, indexVars>>

\* Reader::new(bytes that reached the sink).records()
Records ==
    /\ phase = "write"
    /\ phase' = "read"
    /\ input' = sink
    /\ iterating' = TRUE
    /\ UNCHANGED <<rpos, line, record, item, yielded, calls, wbuf, sink, written,
                   indexedVars, indexVars>>

NextRoundTrip == Write \/ Flush \/ Records \/ RecordsNext

SpecRoundTrip == InitRoundTrip /\ [][NextRoundTrip]_vars

(***************************************************************************)
(* IndexedReader                                                           *)
(***************************************************************************)
NUL == "NUL"
CR == "\r"

\* Read::read of an in-memory stream: up to n bytes from position cur
StreamRead(fs, cur, n) ==
    IF cur >= Len(fs) THEN <<>> ELSE SubSeq(fs, cur + 1, Min(cur + n, Len(fs)))

\* A seek relative to where the last call left the stream.
SeekCurrent(cur, offset) == cur + offset
\* line 174: seek(io::SeekFrom::Start(offset)), the position it yields
Seek(cur, offset) == offset

\* An offset that takes the sequence to be stored unwrapped.
OffsetNoWrap(e, start) == e.offset + start
\* lines 168-170: the byte position of base `start`
Offset(e, start) ==
    e.offset + (start \div e.line_bases) * e.line_bytes + (start % e.line_bases)

\* lines 176-180: k times, read into buf and push all of buf
RECURSIVE ReadFullLines(_, _, _, _, _)
ReadFullLines(fs, cur, buf, o, k) ==
    IF k = 0 THEN [cursor |-> cur, buf |-> buf, out |-> o]
    ELSE LET got == StreamRead(fs, cur, Len(buf))
             buf2 == got \o SubSeq(buf, Len(got) + 1, Len(buf))
         IN ReadFullLines(fs, cur + Len(got), buf2, o \o buf2, k - 1)

\* The Some arm of IndexedReader::read.  u64 arithmetic that goes below zero
\* panics in a build with overflow checks; without them it wraps to a value
\* near 2^64, which ends in an out-of-range slice (line 183) or in a loop that
\* pushes until memory is exhausted (line 176): the call aborts in every build.
\* A zero line_bases is a division by zero.
ReadKnown(fs, e, cur, o, start, stop) ==
    IF e.line_bases = 0
    THEN [res |-> "Abort", out |-> <<>>, cursor |-> cur, sought |-> cur]
    ELSE
    LET ln == (start \div e.line_bases) * e.line_bytes
        line_offset == start % e.line_bases
        offset == Offset(e, start)
        lines == (stop \div e.line_bases) * e.line_bytes - ln
        line_stop == (stop % e.line_bases) - (IF lines = 0 THEN line_offset ELSE 0)
        at == Seek(cur, offset)
    IN IF lines < 0 \/ line_stop < 0
       THEN [res |-> "Abort", out |-> <<>>, cursor |-> at, sought |-> at]
       ELSE LET buf0 == [i \in 1..e.line_bases |-> NUL]
                full == ReadFullLines(fs, at, buf0, <<>>, lines)
                got == StreamRead(fs, full.cursor, line_stop)
                last == got \o SubSeq(full.buf, Len(got) + 1, line_stop)
            IN [res |-> "Ok", out |-> full.out \o last,
                cursor |-> full.cursor + Len(got), sought |-> at]

\* A None arm that answers an unknown name with an empty sequence.
ReadUnknownOk(cur, sk, o) ==
    [res |-> "Ok", out |-> <<>>, cursor |-> cur, sought |-> sk]
\* lines 187-192: the None arm of read
ReadUnknown(cur, sk, o) ==
    [res |-> "UnknownSequence", out |-> o, cursor |-> cur, sought |-> sk]

\* lines 153-158: the None arm of read_all
ReadAllUnknown(cur, sk, o) ==
    [res |-> "UnknownSequence", out |-> o, cursor |-> cur, sought |-> sk]

IndexedRead(fs, idx, cur, sk, o, name, start, stop) ==
    IF name \in DOMAIN idx
    THEN ReadKnown(fs, idx[name], cur, o, start, stop)
    ELSE ReadUnknown(cur, sk, o)

IndexedReadAll(fs, idx, cur, sk, o, name) ==
    IF name \in DOMAIN idx
    THEN IndexedRead(fs, idx, cur, sk, o, name, 0, idx[name].len)
    ELSE ReadAllUnknown(cur, sk, o)

\* Inputs.  The data stream: a header, the bases wrapped at line_bases per line, each
\* line closed by the terminator, and one more record after it.
Letters == <<"A", "C", "G", "T", "B", "D", "H", "K">>
BaseAt(i) == Letters[((i - 1) % Len(Letters)) + 1]
Terminators == {<<NL>>, <<CR, NL>>}
FileHeader == <<GT, "i", "d", NL>>
FileTrailer == <<GT, "z", NL, "N", NL>>

RECURSIVE Wrap(_, _, _)
Wrap(bases, lb, term) ==
    IF bases = <<>> THEN <<>>
    ELSE SubSeq(bases, 1, Min(lb, Len(bases))) \o term
         \o Wrap(SubSeq(bases, Min(lb, Len(bases)) + 1, Len(bases)), lb, term)

Names == {"id", "chrX"}
Coords == 0..MaxLen

indexedFresh ==
    /\ cursor = 0 /\ sought = 0 /\ out = <<>> /\ res = "-" /\ call = <<>>
    /\ ncalls = 0

InitIndexed ==
    /\ readerIdle
    /\ wbuf = <<>> /\ sink = <<>> /\ written = <<>> /\ phase = "-"
    /\ indexIdle
    /\ \E n \in 0..MaxLen, lb \in 1..MaxLineBases, term \in Terminators :
          /\ logical = [i \in 1..n |-> BaseAt(i)]
          /\ fasta = FileHeader \o Wrap([i \in 1..n |-> BaseAt(i)], lb, term)
                        \o FileTrailer
          /\ index = [nm \in {"id"} |->
                        [len |-> n, offset |-> Len(FileHeader), line_bases |-> lb,
                         line_bytes |-> lb + Len(term)]]
    /\ indexedFresh

\* IndexedReader::read
IdxRead ==
    /\ res # "Abort"
    /\ ncalls < MaxReads
    /\ \E name \in Names, start \in Coords, stop \in Coords :
          LET r == IndexedRead(fasta, index, cursor, sought, out, name, start, stop)
          IN /\ res' = r.res
             /\ out' = r.out
             /\ cursor' = r.cursor
             /\ sought' = r.sought
             /\ call' = [op |-> "read", name |-> name, start |-> start,
                         stop |-> stop, prior |-> cursor]
    /\ ncalls' = ncalls + 1
    /\ UNCHANGED <<fasta, index, logical, readerVars, writerVars, indexVars>>

\* IndexedReader::read_all
IdxReadAll ==
    /\ res # "Abort"
    /\ ncalls < MaxReads
    /\ \E name \in Names :
          LET r == IndexedReadAll(fasta, index, cursor, sought, out, name)
          IN /\ res' = r.res
             /\ out' = r.out
             /\ cursor' = r.cursor
             /\ sought' = r.sought
             /\ call' = [op |-> "read_all", name |-> name, start |-> 0,
                         stop |-> IF name \in DOMAIN index THEN index[name].len
                                  ELSE 0,
                         prior |-> cursor]
    /\ ncalls' = ncalls + 1
    /\ UNCHANGED <<fasta, index, logical, readerVars, writerVars, indexVars>>

NextIndexed == IdxRead \/ IdxReadAll

SpecIndexed == InitIndexed /\ [][NextIndexed]_vars

(***************************************************************************)
(* Index::new                                                              *)
(***************************************************************************)
Digits == <<"0", "1", "2", "3", "4", "5", "6", "7", "8", "9">>
IsDigit(c) == \E i \in 1..Len(Digits) : Digits[i] = c
DigitVal(c) == (CHOOSE i \in 1..Len(Digits) : Digits[i] = c) - 1

\* u64::from_str on a field
IsNumeric(f) == f # <<>> /\ \A i \in 1..Len(f) : IsDigit(f[i])

RECURSIVE ParseU64(_, _)
ParseU64(f, acc) ==
    IF f = <<>> THEN acc ELSE ParseU64(Tail(f), 10 * acc + DigitVal(Head(f)))

\* One item of fai_reader.decode(): a row decoded into (String, IndexRecord).
\* The decoder is csv's; a row decodes when it has five fields of which the
\* last four are unsigned numbers.
DecodeRow(row) ==
    IF Len(row) = 5 /\ \A i \in 2..5 : IsNumeric(row[i])
    THEN [ok |-> TRUE, name |-> row[1],
          rec |-> [len |-> ParseU64(row[2], 0), offset |-> ParseU64(row[3], 0),
                   line_bases |-> ParseU64(row[4], 0),
                   line_bytes |-> ParseU64(row[5], 0)]]
    ELSE [ok |-> FALSE, name |-> <<>>, rec |-> <<>>]

\* BTreeMap::insert
Insert(m, k, v) == [x \in (DOMAIN m) \cup {k} |-> IF x = k THEN v ELSE m[x]]

\* A loop body that skips a row that does not decode.
TryRowSkip(d, m, i) ==
    IF d.ok
    THEN [built |-> "building", inner |-> Insert(m, d.name, d.rec), rowi |-> i + 1]
    ELSE [built |-> "building", inner |-> m, rowi |-> i + 1]
\* lines 95-96: try!(row), then insert.  An Err row returns from new(); the
\* map built so far is dropped with the frame.
TryRow(d, m, i) ==
    IF d.ok
    THEN [built |-> "building", inner |-> Insert(m, d.name, d.rec), rowi |-> i + 1]
    ELSE [built |-> "Err", inner |-> <<>>, rowi |-> i + 1]

SampleRows ==
    { <<<<"a">>, <<"1", "2">>, <<"9">>, <<"6", "0">>, <<"6", "1">>>>,
      <<<<"b">>, <<"4">>, <<"3", "0">>, <<"2">>, <<"3">>>>,
      <<<<"a">>, <<"7">>, <<"0">>, <<"7">>, <<"8">>>>,
      <<<<"c">>, <<"4">>, <<"3", "0">>, <<"2">>>>,
      <<<<"c">>, <<"4">>, <<"3", "0">>, <<"2">>, <<"3">>, <<"1">>>>,
      <<<<"c">>, <<"x">>, <<"3", "0">>, <<"2">>, <<"3">>>>,
      <<<<"c">>, <<"4">>, <<>>, <<"2">>, <<"3">>>>,
      <<<<"c">>, <<"4">>, <<"3", "0">>, <<"2">>, <<"3", "n">>>> }

InitIndex ==
    /\ readerIdle
    /\ wbuf = <<>> /\ sink = <<>> /\ written = <<>> /\ phase = "-"
    /\ indexedIdle
    /\ fai \in UNION {[1..n -> SampleRows] : n \in 0..MaxRows}
    /\ rowi = 0
    /\ inner = <<>>
    /\ built = "building"

\* One turn of the loop of Index::new
IndexNewRow ==
    /\ built = "building"
    /\ rowi < Len(fai)
    /\ LET r == TryRow(DecodeRow(fai[rowi + 1]), inner, rowi)
       IN /\ built' = r.built
          /\ inner' = r.inner
          /\ rowi' = r.rowi
    /\ UNCHANGED <<fai, readerVars, writerVars, indexedVars>>

\* line 98: Ok(Index { inner: inner })
IndexNewOk ==
    /\ built = "building"
    /\ rowi = Len(fai)
    /\ built' = "Ok"
    /\ UNCHANGED <<fai, rowi, inner, readerVars, writerVars, indexedVars>>

NextIndex == IndexNewRow \/ IndexNewOk

SpecIndex == InitIndex /\ [][NextIndex]_vars

(***************************************************************************)
(* Properties of the Reader (SpecReader)                                   *)
(***************************************************************************)
\* The blocks of a stream, read off the text: the lines (terminator removed)
\* and what follows the last terminator.
RECURSIVE SplitLines(_, _, _)
SplitLines(s, cur, acc) ==
    IF s = <<>> THEN [lines |-> acc, rest |-> cur]
    ELSE IF Head(s) = NL THEN SplitLines(Tail(s), <<>>, Append(acc, cur))
    ELSE SplitLines(Tail(s), Append(cur, Head(s)), acc)

\* A concatenation of well-formed blocks: complete lines, the first a header;
\* a sequence line is a line of bases (no whitespace, no '>').
WellFormedStream(s) ==
    LET sl == SplitLines(s, <<>>, <<>>)
    IN /\ sl.rest = <<>>
       /\ sl.lines # <<>> => StartsWithGT(sl.lines[1])
       /\ \A i \in 1..Len(sl.lines) :
             ~StartsWithGT(sl.lines[i]) =>
                 \A j \in 1..Len(sl.lines[i]) : sl.lines[i][j] \notin {SP, GT}

RECURSIVE GroupBlocks(_, _)
GroupBlocks(lines, acc) ==
    IF lines = <<>> THEN acc
    ELSE IF StartsWithGT(Head(lines))
    THEN GroupBlocks(Tail(lines), Append(acc, [header |-> Head(lines), seq |-> <<>>]))
    ELSE GroupBlocks(Tail(lines),
                     [acc EXCEPT ![Len(acc)].seq = @ \o Head(lines)])

Triple(r) == [id |-> RecordId(r), desc |-> RecordDesc(r), seq |-> r.seq]
Triples(rs) == [i \in 1..Len(rs) |-> Triple(rs[i])]
ExpectedTriples(s) == Triples(GroupBlocks(SplitLines(s, <<>>, <<>>).lines, <<>>))

\* C2 (as claimed): when the iterator over a stream of N well-formed blocks has
\* returned None, it has yielded exactly N Ok records whose id, desc and seq
\* are those of the blocks, in order.
C2_RecordsMatchBlocks ==
    (iterating /\ phase = "-" /\ item = "None" /\ WellFormedStream(input))
        => Triples(yielded) = ExpectedTriples(input)

\* C5 (as claimed): once next() has returned None or an error item, every
\* later next() returns None.
C5_StopsPermanently ==
    [][(iterating /\ item \in {"None", "Err"}) => item' = "None"]_vars

\* C9 (as claimed): a Record left by a read() that returned Ok is empty, or
\* its header starts with '>' and holds an id token.
C9_EmptyOrWellFormed ==
    (calls > 0 /\ item \in {"Ok", "None"})
        => \/ RecordIsEmpty(record)
           \/ StartsWithGT(record.header) /\ RecordId(record) # <<>>

\* C9 (amended): a Record left by a read() that returned Ok is empty, or its
\* header starts with '>'; the header need not hold an id token.
C9_EmptyOrHeaderStartsWithGT ==
    (calls > 0 /\ item \in {"Ok", "None"})
        => RecordIsEmpty(record) \/ StartsWithGT(record.header)

C9_Witness ==
    /\ calls >= 2
    /\ item = "Ok"
    /\ StartsWithGT(record.header)
    /\ RecordId(record) = <<>>
    /\ record.seq # <<>>

(***************************************************************************)
(* Properties of Writer followed by Reader (SpecRoundTrip)                 *)
(***************************************************************************)
\* C6 (as claimed, for sequences that hold no whitespace): records written
\* in order and flushed are parsed back as the same number of records with
\* the same id, descriptions and sequence.  (A sequence ending in a blank is
\* within the claim as well, and comes back without it: trim_right, line 69.)
NoBlanks(seq) == \A j \in 1..Len(seq) : seq[j] \notin Whitespace
C6_RoundTrip ==
    (/\ phase = "read" /\ item = "None" /\ wbuf = <<>> /\ Len(written) >= 1
     /\ \A i \in 1..Len(written) : NoBlanks(written[i].seq))
        => Triples(yielded) = written

(***************************************************************************)
(* Properties of the IndexedReader (SpecIndexed)                           *)
(***************************************************************************)
Called == ncalls > 0
Known == Called /\ call.name \in DOMAIN index
InRange == Known /\ call.start <= call.stop /\ call.stop <= index[call.name].len
Wanted == SubSeq(logical, call.start + 1, call.stop)

\* C1 (as claimed): a read of an in-range range of an entry whose layout
\* matches the stream succeeds and leaves out equal to bases [start, stop).
C1_ReadsLogicalRange ==
    InRange => (res = "Ok" /\ out = Wanted)

\* C3 (as claimed): read of an indexed name with stop > length or start > stop
\* returns a RangeOutOfBounds error.
C3_RangeOutOfBounds ==
    (Known /\ call.op = "read"
       /\ (call.stop > index[call.name].len \/ call.start > call.stop))
        => res = "RangeOutOfBounds"

\* C4: read and read_all of a name that is not a key of the index return the
\* unknown-sequence error, never Ok.
C4_UnknownSequence ==
    (Called /\ call.name \notin DOMAIN index) => res = "UnknownSequence"

C4_Witness ==
    /\ ncalls >= 2
    /\ call.op = "read"
    /\ call.name \notin DOMAIN index
    /\ call.start < call.stop
    /\ res = "UnknownSequence"

SameLine ==
    /\ InRange
    /\ call.op = "read"
    /\ call.start \div index[call.name].line_bases
          = call.stop \div index[call.name].line_bases

\* C7: a read whose start and stop fall in the same physical line seeks to
\* offset + (start div line_bases) * line_bytes + (start mod line_bases) and
\* returns bases [start, stop); start = stop gives an empty out.
C7_SameLineRead ==
    SameLine =>
        LET e == index[call.name]
        IN /\ res = "Ok"
           /\ sought = e.offset + (call.start \div e.line_bases) * e.line_bytes
                          + (call.start % e.line_bases)
           /\ out = Wanted
           /\ Len(out) = call.stop - call.start

C7_Witness ==
    /\ SameLine
    /\ call.start \div index[call.name].line_bases >= 1
    /\ call.start < call.stop
    /\ res = "Ok"
    /\ out = Wanted

\* C10: every call gives the outcome and the out it would give as the first
\* call on a fresh reader (cursor at 0) over the same stream and index.
C10_NoCursorReliance ==
    [][ncalls' = ncalls + 1 =>
         LET c == call'
             f == IF c.op = "read"
                  THEN IndexedRead(fasta, index, 0, 0, out, c.name, c.start, c.stop)
                  ELSE IndexedReadAll(fasta, index, 0, 0, out, c.name)
         IN res' = f.res /\ out' = f.out]_vars

C10_Witness ==
    /\ ncalls >= 2
    /\ InRange
    /\ res = "Ok"
    /\ call.prior > sought
    /\ call.start < call.stop
    /\ out = Wanted

(***************************************************************************)
(* Properties of Index::new (SpecIndex)                                    *)
(***************************************************************************)
\* A malformed row, as the side-file format has it.
Malformed(row) == Len(row) # 5 \/ \E i \in 2..5 : ~IsNumeric(row[i])
RowNames == {fai[i][1] : i \in 1..Len(fai)}

\* C8: the build is all-or-nothing: with a malformed row anywhere it returns
\* an error and no Index; with none it returns an Index with one entry per
\* distinct name.
C8_AllOrNothing ==
    /\ built = "Ok" =>
          /\ \A i \in 1..Len(fai) : ~Malformed(fai[i])
          /\ DOMAIN inner = RowNames
    /\ built = "Err" =>
          /\ \E i \in 1..Len(fai) : Malformed(fai[i])
          /\ inner = <<>>
    /\ (built = "building" /\ rowi = Len(fai)) =>
          \A i \in 1..Len(fai) : ~Malformed(fai[i])

C8_Witness ==
    /\ built = "Err"
    /\ Len(fai) >= 3
    /\ ~Malformed(fai[1])
    /\ Malformed(fai[2])
    /\ ~Malformed(fai[3])

====
